---- MODULE Spec2Model ----
(***************************************************************************)
(* K-FAC layer wrappers of torch_kfac.layers: ConvLayer, LinearLayer and   *)
(* IdentityLayer.  A layer is a state machine driven by the host: forward  *)
(* and backward passes fire the capture hooks, then update_cov and         *)
(* multiply_preconditioner are called.  Tensors are modelled by value:     *)
(* a shape and the elements in row-major (contiguous) order.               *)
(***************************************************************************)
EXTENDS Integers, Sequences, FiniteSets, TLC

VARIABLES
    kind,               \* which Layer subclass wraps the module
    module,             \* the wrapped torch module's static configuration
    in_shape,           \* shape of the tensors the host feeds to the module
    in_features,        \* Layer._in_features
    out_features,       \* Layer._out_features
    center,             \* self._center
    activations,        \* self._activations
    sensitivities,      \* self._sensitivities
    activations_cov,    \* self._activations_cov
    sensitivities_cov,  \* self._sensitivities_cov
    fwd_in,             \* input of the most recent completed forward pass
    bwd_in,             \* grad_out of the most recent completed backward pass
    call                \* the last call made on the layer and its outcome

vars == <<kind, module, in_shape, in_features, out_features, center,
          activations, sensitivities, activations_cov, sensitivities_cov,
          fwd_in, bwd_in, call>>

(***************************************************************************)
(* Bounds of the model.                                                    *)
(***************************************************************************)
MaxBatch == 2
MaxChannels == 2
MaxKernel == 2
MaxStride == 2
MaxPad == 1
MaxPatchNumel == 6      \* elements of a padded input, patch extraction alone
MaxLayerNumel == 2      \* elements of a padded input, the layer's life cycle
MaxUpdates == 2
MaxGrads == 2           \* tensors in a gradient tuple handed to an IdentityLayer

\* the tensors the host feeds in are Arange(shape, base) for these bases
Bases == {0, 1}
\* the damping values the optimizer passes
Dampings == {1, 2}

\* nn.Conv1d, nn.Conv2d, nn.Conv3d
MaxRank == 3

None == [none |-> TRUE]

(***************************************************************************)
(* Tensors: [shape, data], data in row-major order.  Dimensions and        *)
(* indices are 0-based, as in torch.                                       *)
(***************************************************************************)
RECURSIVE Prod(_)
Prod(s) == IF s = <<>> THEN 1 ELSE Head(s) * Prod(Tail(s))

RECURSIVE Sum(_)
Sum(s) == IF s = <<>> THEN 0 ELSE Head(s) + Sum(Tail(s))

\* the distance, in elements, between neighbours along each dimension
Strides(shape) == [k \in 1..Len(shape) |-> Prod(SubSeq(shape, k + 1, Len(shape)))]

RECURSIVE Dot(_, _, _)
Dot(a, b, k) == IF k = 0 THEN 0 ELSE a[k] * b[k] + Dot(a, b, k - 1)

\* the index tuple of the i-th element (0-based) of a tensor of this shape
Unravel(i, shape) ==
    LET st == Strides(shape)
    IN  [k \in 1..Len(shape) |-> (i \div st[k]) % shape[k]]

\* the position (0-based) of the element at index tuple idx
Ravel(idx, shape) == Dot(idx, Strides(shape), Len(shape))

At(t, idx) == t.data[Ravel(idx, t.shape) + 1]

\* the tensor of this shape whose element at index tuple idx is F(idx)
Tensor(shape, F(_)) ==
    LET st == Strides(shape)
        n == Len(shape)
    IN  [shape |-> shape,
         data |-> [i \in 1..Prod(shape) |->
                    F([k \in 1..n |-> ((i - 1) \div st[k]) % shape[k]])]]

IsTensor(t) == "shape" \in DOMAIN t

RuntimeError == [error |-> "RuntimeError"]
AttributeError == [error |-> "AttributeError"]
IsError(r) == "error" \in DOMAIN r

Reverse(s) == [i \in 1..Len(s) |-> s[Len(s) + 1 - i]]

\* a tensor with pairwise distinct positive elements: element i is base + i
Arange(shape, base) == [shape |-> shape, data |-> [i \in 1..Prod(shape) |-> base + i]]

\* torch.nn.functional.pad(x, pad, mode='constant', value): pad[2j], pad[2j+1]
\* (0-based) pad the j-th dimension counted from the last
F_pad(x, pad, value) ==
    LET n == Len(x.shape)
        xs == Strides(x.shape)
        lo == [k \in 1..n |-> IF n - k < Len(pad) \div 2 THEN pad[2 * (n - k) + 1] ELSE 0]
        hi == [k \in 1..n |-> IF n - k < Len(pad) \div 2 THEN pad[2 * (n - k) + 2] ELSE 0]
        shape == [k \in 1..n |-> lo[k] + x.shape[k] + hi[k]]
        inside(idx) == \A k \in 1..n : idx[k] >= lo[k] /\ idx[k] < lo[k] + x.shape[k]
        src(idx) == [k \in 1..n |-> idx[k] - lo[k]]
    IN  Tensor(shape, LAMBDA idx : IF inside(idx) THEN x.data[Dot(src(idx), xs, n) + 1]
                                   ELSE value)

\* Tensor.unfold(dimension, size, step): the windows of `size` along
\* `dimension`, in a new last dimension
unfold(x, dimension, size, step) ==
    LET n == Len(x.shape)
        xs == Strides(x.shape)
        d == dimension + 1
        shape == [k \in 1..(n + 1) |->
                    IF k = n + 1 THEN size
                    ELSE IF k = d THEN ((x.shape[d] - size) \div step) + 1
                    ELSE x.shape[k]]
        src(idx) == [k \in 1..n |->
                    IF k = d THEN idx[d] * step + idx[n + 1] ELSE idx[k]]
    IN  Tensor(shape, LAMBDA idx : x.data[Dot(src(idx), xs, n) + 1])

\* Tensor.unsqueeze(dim)
unsqueeze(x, dim) ==
    [shape |-> SubSeq(x.shape, 1, dim) \o <<1>> \o SubSeq(x.shape, dim + 1, Len(x.shape)),
     data |-> x.data]

\* Tensor.transpose(dim0, dim1); a negative dim counts from the end
transpose(x, dim0, dim1) ==
    LET n == Len(x.shape)
        xs == Strides(x.shape)
        a == (IF dim0 < 0 THEN dim0 + n ELSE dim0) + 1
        b == (IF dim1 < 0 THEN dim1 + n ELSE dim1) + 1
        swap(s) == [k \in 1..n |-> IF k = a THEN s[b] ELSE IF k = b THEN s[a] ELSE s[k]]
    IN  Tensor(swap(x.shape), LAMBDA idx : x.data[Dot(swap(idx), xs, n) + 1])

\* Tensor.squeeze(dim): drops the dimension when its size is 1
squeeze(x, dim) ==
    IF x.shape[dim + 1] = 1
    THEN [shape |-> SubSeq(x.shape, 1, dim) \o SubSeq(x.shape, dim + 2, Len(x.shape)),
          data |-> x.data]
    ELSE x

\* Tensor.view(*shape) of a contiguous tensor; at most one entry is -1 and is
\* inferred; raises when the sizes do not fit
view(x, shape) ==
    LET known == Prod(SelectSeq(shape, LAMBDA s : s # -1))
        numel == Prod(x.shape)
        infer == \E k \in 1..Len(shape) : shape[k] = -1
        full  == [k \in 1..Len(shape) |->
                    IF shape[k] = -1 THEN numel \div known ELSE shape[k]]
    IN  IF infer /\ (known = 0 \/ numel % known # 0) THEN RuntimeError
        ELSE IF ~infer /\ known # numel THEN RuntimeError
        ELSE [shape |-> full, data |-> x.data]

(***************************************************************************)
(* ConvLayer.extract_patches                                               *)
(***************************************************************************)
n_dim(m) == Len(m.kernel_size)

\* tuple(pad for pad in self.module.padding[::-1] for _ in range(2))
PadTuple(padding) ==
    [i \in 1..(2 * Len(padding)) |-> Reverse(padding)[(i + 1) \div 2]]

\* for i, (size, stride) in enumerate(zip(kernel_size, stride)): x = x.unfold(i+2, size, stride)
RECURSIVE UnfoldLoop(_, _, _)
UnfoldLoop(x, m, i) ==
    IF i >= Len(m.kernel_size) \/ i >= Len(m.stride) THEN x
    ELSE UnfoldLoop(unfold(x, i + 2, m.kernel_size[i + 1], m.stride[i + 1]), m, i + 1)

\* variant: the channels are moved behind the kernel axes, to the very end
MoveChannels_last(x, m) ==
    LET n == Len(x.shape)
        xs == Strides(x.shape)
        shape == <<x.shape[1]>> \o SubSeq(x.shape, 3, n) \o <<x.shape[2]>>
        src(idx) == <<idx[1], idx[n]>> \o SubSeq(idx, 2, n - 1)
    IN  Tensor(shape, LAMBDA idx : x.data[Dot(src(idx), xs, n) + 1])

\* x.unsqueeze(2+n_dim).transpose(1, 2+n_dim).squeeze(1)
MoveChannels(x, m) ==
    squeeze(transpose(unsqueeze(x, 2 + n_dim(m)), 1, 2 + n_dim(m)), 1)

\* sum(x.shape[1+i] for i in range(self.n_dim))
LocationAxis(x, m) == Sum([i \in 1..n_dim(m) |-> x.shape[1 + i]])

extract_patches(m, x) ==
    LET padded == IF Sum(m.padding) > 0
                  THEN F_pad(x, PadTuple(m.padding), 0)
                  ELSE x
        moved == MoveChannels(UnfoldLoop(padded, m, 0), m)
    IN  view(moved, <<moved.shape[1], LocationAxis(moved, m), -1>>)

(***************************************************************************)
(* torch_kfac.utils and the Layer base class.  Real-valued results are     *)
(* kept exact: a tensor with a field den stands for data / den.            *)
(***************************************************************************)
Scaled(t) == [shape |-> t.shape, data |-> t.data, den |-> 1]

\* Tensor.reshape(-1, n) of a contiguous tensor
reshape2(x, n) == view(x, <<-1, n>>)

\* center(x): subtract the column-wise mean from every row
utils_center(x) ==
    LET n == x.shape[1]
        f == x.shape[2]
        colsum(j) == Sum([r \in 1..n |-> x.data[(r - 1) * f + j]])
    IN  [shape |-> x.shape,
         data |-> [i \in 1..(n * f) |-> n * x.data[i] - colsum(((i - 1) % f) + 1)],
         den |-> n * x.den]

\* append_homog(x): append a constant-one column as the last column
append_homog(x) ==
    LET n == x.shape[1]
        f == x.shape[2]
    IN  [shape |-> <<n, f + 1>>,
         data |-> [i \in 1..(n * (f + 1)) |->
                    IF (i - 1) % (f + 1) = f THEN x.den
                    ELSE x.data[((i - 1) \div (f + 1)) * f + ((i - 1) % (f + 1)) + 1]],
         den |-> x.den]

\* compute_cov(x): X^T X / n, n the row count
compute_cov(x) ==
    LET n == x.shape[1]
        f == x.shape[2]
        gram(i, j) == Sum([r \in 1..n |-> x.data[(r - 1) * f + i] * x.data[(r - 1) * f + j]])
    IN  [shape |-> <<f, f>>,
         data |-> [k \in 1..(f * f) |-> gram(((k - 1) \div f) + 1, ((k - 1) % f) + 1)],
         den |-> n * x.den * x.den]

\* the covariance accumulator Layer.__init__ creates for a factor of this side:
\* n counts the samples folded into the running average, last is the latest
MovingAverage(side) == [shape |-> <<side, side>>, n |-> 0, last |-> None]

\* add_to_average(sample): a sample of another shape cannot be folded in
add_to_average(acc, sample) ==
    IF sample.shape # acc.shape THEN RuntimeError
    ELSE [acc EXCEPT !.n = @ + 1, !.last = sample]

\* the layer object as the methods see it
Self == [module |-> module, in_features |-> in_features, out_features |-> out_features,
         center |-> center, activations |-> activations, sensitivities |-> sensitivities,
         activations_cov |-> activations_cov, sensitivities_cov |-> sensitivities_cov]

\* ConvLayer.has_bias / LinearLayer.has_bias
has_bias(m) == m.bias

\* the body update_cov has in both layers, from the 2-D act and sen on:
\* center, append_homog, compute_cov, then the two add_to_average in order
FoldCovariances(self, act2d, sen2d) ==
    LET act0 == Scaled(act2d)
        sen0 == Scaled(sen2d)
        act1 == IF self.center THEN utils_center(act0) ELSE act0
        sen  == IF self.center THEN utils_center(sen0) ELSE sen0
        act  == IF has_bias(self.module) THEN append_homog(act1) ELSE act1
        a    == add_to_average(self.activations_cov, compute_cov(act))
        s    == add_to_average(self.sensitivities_cov, compute_cov(sen))
    IN  IF IsError(a) THEN [raised |-> a, self |-> self]
        ELSE IF IsError(s)
        THEN [raised |-> s, self |-> [self EXCEPT !.activations_cov = a]]
        ELSE [raised |-> None,
              self |-> [self EXCEPT !.activations_cov = a, !.sensitivities_cov = s]]

(***************************************************************************)
(* ConvLayer                                                               *)
(***************************************************************************)

BoolInt(b) == IF b THEN 1 ELSE 0

\* in_features = np.prod(module.kernel_size) * module.in_channels + self.has_bias
ConvLayer_in_features(m) == Prod(m.kernel_size) * m.in_channels + BoolInt(has_bias(m))

ConvLayer_out_features(m) == m.out_channels

\* forward_hook: self._activations = self.extract_patches(inp[0])
ConvLayer_forward_hook(m, inp) == extract_patches(m, inp)

\* backward_hook: transpose(1, -1).contiguous(), then view(shape[0], -1, shape[-1])
ConvLayer_backward_hook(grad_out) ==
    LET t == transpose(grad_out, 1, -1)
    IN  view(t, <<t.shape[1], -1, t.shape[Len(t.shape)]>>)

\* variant: update_cov consumes the captured activations
ConvLayer_update_cov_consuming(self) ==
    IF ~IsTensor(self.activations) \/ ~IsTensor(self.sensitivities)
    THEN [raised |-> AttributeError, self |-> self]
    ELSE LET r == FoldCovariances(self,
                      reshape2(self.activations, self.activations.shape[3]),
                      reshape2(self.sensitivities, self.sensitivities.shape[3]))
         IN  [r EXCEPT !.self.activations = None]

\* ConvLayer.update_cov: the layer after the call and the error raised, if any
ConvLayer_update_cov(self) ==
    IF ~IsTensor(self.activations) \/ ~IsTensor(self.sensitivities)
    THEN [raised |-> AttributeError, self |-> self]
    ELSE FoldCovariances(self,
                         reshape2(self.activations, self.activations.shape[3]),
                         reshape2(self.sensitivities, self.sensitivities.shape[3]))

\* weights.view(weights.shape[0], -1); torch.cat([weights, bias[:, None]], -1)
ConvLayer_mat_grads(weights, bias) ==
    LET w == view(weights, <<weights.shape[1], -1>>)
        r == w.shape[1]
        c == w.shape[2]
    IN  IF Len(bias.shape) # 1 \/ bias.shape[1] # r THEN RuntimeError
        ELSE [shape |-> <<r, c + 1>>,
              data |-> [i \in 1..(r * (c + 1)) |->
                         IF (i - 1) % (c + 1) = c THEN bias.data[((i - 1) \div (c + 1)) + 1]
                         ELSE w.data[((i - 1) \div (c + 1)) * c + ((i - 1) % (c + 1)) + 1]]]

\* variant: multiply_preconditioner drops the captured sensitivities
Outcome_dropping(self, raised, result, norm, mat_grads, renorm_coeff) ==
    [self |-> [self EXCEPT !.sensitivities = None], raised |-> raised, result |-> result,
     damping_norm |-> norm, mat_grads |-> mat_grads, renorm_coeff |-> renorm_coeff]

\* what multiply_preconditioner leaves behind: the layer after the call, the
\* error raised or the tuple returned, and the values of its locals
Outcome(self, raised, result, norm, mat_grads, renorm_coeff) ==
    [self |-> self, raised |-> raised, result |-> result, damping_norm |-> norm,
     mat_grads |-> mat_grads, renorm_coeff |-> renorm_coeff]

\* ConvLayer.multiply_preconditioner.  The natural gradient's numbers are not
\* modelled, only its shape: the inverses are those of the two accumulators.
ConvLayer_multiply_preconditioner(self, grads, damping) ==
    IF ~IsTensor(self.activations)
    THEN Outcome(self, AttributeError, None, None, None, None)
    ELSE
    LET norm == self.activations.shape[2]
        act_cov_inverse == self.activations_cov.shape
        sen_cov_inverse == self.sensitivities_cov.shape
        mat_grads == IF has_bias(self.module)
                     THEN IF Len(grads) # 2 THEN [error |-> "ValueError"]
                          ELSE ConvLayer_mat_grads(grads[1], grads[2])
                     ELSE AttributeError   \* grads.shape: grads is a tuple
        renorm_coeff == self.activations.shape[2]
        fits == /\ sen_cov_inverse[2] = mat_grads.shape[1]
                /\ mat_grads.shape[2] = act_cov_inverse[1]
        nat_grads == <<sen_cov_inverse[1], act_cov_inverse[2]>>
    IN  IF IsError(mat_grads)
        THEN Outcome(self, mat_grads, None, norm, None, None)
        ELSE IF ~fits
        THEN Outcome(self, RuntimeError, None, norm, mat_grads, renorm_coeff)
        ELSE IF has_bias(self.module)
        THEN IF (nat_grads[2] - 1) * nat_grads[1] # Prod(grads[1].shape)
             THEN Outcome(self, RuntimeError, None, norm, mat_grads, renorm_coeff)
             ELSE Outcome(self, None,
                          << [shape |-> grads[1].shape], [shape |-> <<nat_grads[1]>>] >>,
                          norm, mat_grads, renorm_coeff)
        ELSE Outcome(self, None, << [shape |-> grads[1].shape] >>,
                     norm, mat_grads, renorm_coeff)

(***************************************************************************)
(* LinearLayer                                                             *)
(***************************************************************************)
\* variant: the bias is not counted
LinearLayer_in_features_unbiased(m) == m.in_features

\* in_features = module.in_features + self.has_bias
LinearLayer_in_features(m) == m.in_features + BoolInt(has_bias(m))

LinearLayer_out_features(m) == m.out_features

\* forward_hook: inp[0].clone().detach().reshape(-1, self._in_features - self.has_bias)
LinearLayer_forward_hook(self, inp) ==
    reshape2(inp, self.in_features - BoolInt(has_bias(self.module)))

\* backward_hook: grad_out[0].clone().detach().reshape(-1, self._out_features)
LinearLayer_backward_hook(self, grad_out) == reshape2(grad_out, self.out_features)

\* LinearLayer.update_cov: the layer after the call and the error raised, if any
LinearLayer_update_cov(self) ==
    IF ~IsTensor(self.activations) \/ ~IsTensor(self.sensitivities)
    THEN [raised |-> AttributeError, self |-> self]
    ELSE FoldCovariances(self, self.activations, self.sensitivities)

\* torch.cat([weights, bias[:, None]], -1) of a 2-D weights and a 1-D bias
CatColumn(weights, bias) ==
    LET r == weights.shape[1]
        c == weights.shape[2]
    IN  [shape |-> <<r, c + 1>>,
         data |-> [i \in 1..(r * (c + 1)) |->
                    IF (i - 1) % (c + 1) = c THEN bias.data[((i - 1) \div (c + 1)) + 1]
                    ELSE weights.data[((i - 1) \div (c + 1)) * c + ((i - 1) % (c + 1)) + 1]]]

\* mat[:, :-1]
ColumnsButLast(mat) ==
    LET r == mat.shape[1]
        c == mat.shape[2]
    IN  [shape |-> <<r, c - 1>>,
         data |-> [i \in 1..(r * (c - 1)) |->
                    mat.data[((i - 1) \div (c - 1)) * c + ((i - 1) % (c - 1)) + 1]]]

\* mat[:, -1]
LastColumn(mat) ==
    LET r == mat.shape[1]
        c == mat.shape[2]
    IN  [shape |-> <<r>>, data |-> [i \in 1..r |-> mat.data[(i - 1) * c + c]]]

\* variant: the bias gradient becomes the first column
grads_to_mat_bias_first(self, grads) ==
    IF has_bias(self.module)
    THEN LET w == grads[1]
             r == w.shape[1]
             c == w.shape[2]
         IN  [shape |-> <<r, c + 1>>,
              data |-> [i \in 1..(r * (c + 1)) |->
                         IF (i - 1) % (c + 1) = 0 THEN grads[2].data[((i - 1) \div (c + 1)) + 1]
                         ELSE w.data[((i - 1) \div (c + 1)) * c + ((i - 1) % (c + 1))]]]
    ELSE grads[1]

\* LinearLayer.grads_to_mat
grads_to_mat(self, grads) ==
    IF has_bias(self.module)
    THEN CatColumn(grads[1], grads[2])
    ELSE grads[1]

\* LinearLayer.mat_to_grads
mat_to_grads(self, mat_grads) ==
    IF has_bias(self.module)
    THEN <<ColumnsButLast(mat_grads), LastColumn(mat_grads)>>
    ELSE <<mat_grads>>

(***************************************************************************)
(* IdentityLayer                                                           *)
(***************************************************************************)
IdentityLayer_in_features == 0
IdentityLayer_out_features == 0

\* IdentityLayer.update_cov: return
IdentityLayer_update_cov(self) == [raised |-> None, self |-> self]

\* variant: an empty tuple is returned, as vars does
IdentityLayer_multiply_preconditioner_empty(self, grads, damping) ==
    [self |-> self, raised |-> None, result |-> <<>>]

\* IdentityLayer.multiply_preconditioner: return grads
IdentityLayer_multiply_preconditioner(self, grads, damping) ==
    [self |-> self, raised |-> None, result |-> grads]

\* IdentityLayer.vars: return tuple()
IdentityLayer_vars(self) == <<>>

(***************************************************************************)
(* The layers the model constructs and the tensors the host feeds them.    *)
(***************************************************************************)
\* one spatial dimension: the input's extent and the module's kernel size,
\* stride and padding along it; the kernel fits the padded input, and so does
\* the stride (a longer stride gives the one window a stride of the padded
\* extent gives)
DimChoices(budget) ==
    {d \in [size : 1..budget, kernel : 1..MaxKernel, stride : 1..MaxStride, pad : 0..MaxPad] :
        /\ d.size + 2 * d.pad <= budget
        /\ d.kernel <= d.size + 2 * d.pad
        /\ d.stride <= d.size + 2 * d.pad}

\* n spatial dimensions whose padded volume is at most budget
RECURSIVE Geometries(_, _)
Geometries(n, budget) ==
    IF n = 0 THEN {<<>>}
    ELSE UNION {{<<d>> \o g : g \in Geometries(n - 1, budget \div (d.size + 2 * d.pad))} :
                d \in DimChoices(budget)}

ConvModule(g, cin, cout, bias) ==
    [in_channels |-> cin, out_channels |-> cout,
     kernel_size |-> [i \in 1..Len(g) |-> g[i].kernel],
     stride |-> [i \in 1..Len(g) |-> g[i].stride],
     padding |-> [i \in 1..Len(g) |-> g[i].pad],
     padding_mode |-> "zeros", bias |-> bias]

\* the module's output extent along each spatial dimension
OutputSize(m, shape) ==
    [i \in 1..n_dim(m) |->
        ((shape[2 + i] + 2 * m.padding[i] - m.kernel_size[i]) \div m.stride[i]) + 1]

\* the layer after Layer.__init__, the subclass constructor and setup(center=c)
Construct(k, m, shape, fin, fout, c) ==
    /\ kind = k
    /\ module = m
    /\ in_shape = shape
    /\ in_features = fin
    /\ out_features = fout
    /\ center = c
    /\ activations = None
    /\ sensitivities = None
    /\ activations_cov = MovingAverage(fin)
    /\ sensitivities_cov = MovingAverage(fout)
    /\ fwd_in = None
    /\ bwd_in = None
    /\ call = [op |-> "__init__"]

\* ConvLayer.__init__ over a Conv1d, Conv2d or Conv3d module
InitConvOver(numel, couts, biases, centers) ==
    \E n \in 1..MaxRank : \E batch \in 1..MaxBatch : \E cin \in 1..MaxChannels :
    \E g \in Geometries(n, numel \div (batch * cin)) :
    \E cout \in couts : \E bias \in biases : \E c \in centers :
        LET m == ConvModule(g, cin, cout, bias)
        IN  Construct("conv", m, <<batch, cin>> \o [i \in 1..n |-> g[i].size],
                      ConvLayer_in_features(m), ConvLayer_out_features(m), c)

InitConv == InitConvOver(MaxLayerNumel, 1..MaxChannels, BOOLEAN, BOOLEAN)

InitPatches == InitConvOver(MaxPatchNumel, {1}, {FALSE}, {FALSE})

\* LinearLayer.__init__
InitLinear ==
    \E fin \in 1..(MaxChannels + 1) : \E fout \in 1..MaxChannels : \E bias \in BOOLEAN :
    \E batch \in 1..MaxBatch : \E c \in BOOLEAN :
        LET m == [in_features |-> fin, out_features |-> fout, bias |-> bias]
        IN  Construct("linear", m, <<batch, fin>>,
                      LinearLayer_in_features(m), LinearLayer_out_features(m), c)

\* IdentityLayer.__init__
InitIdentity ==
    Construct("identity", [bias |-> FALSE], <<>>,
              IdentityLayer_in_features, IdentityLayer_out_features, FALSE)

\* the layer after a call
SetSelf(self) ==
    /\ module' = self.module
    /\ in_features' = self.in_features
    /\ out_features' = self.out_features
    /\ center' = self.center
    /\ activations' = self.activations
    /\ sensitivities' = self.sensitivities
    /\ activations_cov' = self.activations_cov
    /\ sensitivities_cov' = self.sensitivities_cov

\* the gradients of the layer's parameters, every element a distinct label
ParamGrads(wshape, bias, base) ==
    IF bias
    THEN <<Arange(wshape, base), Arange(<<wshape[1]>>, base + Prod(wshape))>>
    ELSE <<Arange(wshape, base)>>

(***************************************************************************)
(* ConvLayer: the host's passes and calls                                  *)
(***************************************************************************)
ConvForward ==
    /\ kind = "conv"
    /\ \E base \in Bases :
        LET x == Arange(in_shape, base)
            r == ConvLayer_forward_hook(module, x)
        IN  IF IsError(r)
            THEN /\ call' = [op |-> "forward", raised |-> r]
                 /\ UNCHANGED <<activations, fwd_in>>
            ELSE /\ activations' = r
                 /\ fwd_in' = x
                 /\ call' = [op |-> "forward", raised |-> None]
    /\ UNCHANGED <<kind, module, in_shape, in_features, out_features, center,
                   sensitivities, activations_cov, sensitivities_cov, bwd_in>>

ConvBackward ==
    /\ kind = "conv"
    /\ IsTensor(fwd_in)
    /\ \E base \in Bases :
        LET g == Arange(<<fwd_in.shape[1], module.out_channels>>
                          \o OutputSize(module, fwd_in.shape), base)
        IN  /\ sensitivities' = ConvLayer_backward_hook(g)
            /\ bwd_in' = g
            /\ call' = [op |-> "backward", raised |-> None]
    /\ UNCHANGED <<kind, module, in_shape, in_features, out_features, center,
                   activations, activations_cov, sensitivities_cov, fwd_in>>

ConvUpdateCov ==
    /\ kind = "conv"
    /\ activations_cov.n < MaxUpdates
    /\ LET r == ConvLayer_update_cov(Self)
       IN  /\ SetSelf(r.self)
           /\ call' = [op |-> "update_cov", raised |-> r.raised]
    /\ UNCHANGED <<kind, in_shape, fwd_in, bwd_in>>

ConvMultiplyPreconditioner ==
    /\ kind = "conv"
    /\ \E damping \in Dampings :
        LET grads == ParamGrads(<<module.out_channels, module.in_channels>>
                                  \o module.kernel_size, has_bias(module), 0)
            r == ConvLayer_multiply_preconditioner(Self, grads, damping)
        IN  /\ SetSelf(r.self)
            /\ call' = [op |-> "multiply_preconditioner", grads |-> grads,
                        damping |-> damping, raised |-> r.raised, result |-> r.result,
                        damping_norm |-> r.damping_norm, mat_grads |-> r.mat_grads,
                        renorm_coeff |-> r.renorm_coeff]
    /\ UNCHANGED <<kind, in_shape, fwd_in, bwd_in>>

NextConv ==
    \/ ConvForward
    \/ ConvBackward
    \/ ConvUpdateCov
    \/ ConvMultiplyPreconditioner

SpecConv == InitConv /\ [][NextConv]_vars

NextPatches == ConvForward

SpecPatches == InitPatches /\ [][NextPatches]_vars

(***************************************************************************)
(* LinearLayer: the host's passes and calls                                *)
(***************************************************************************)
LinearForward ==
    /\ kind = "linear"
    /\ \E base \in Bases :
        LET x == Arange(in_shape, base)
            r == LinearLayer_forward_hook(Self, x)
        IN  IF IsError(r)
            THEN /\ call' = [op |-> "forward", raised |-> r]
                 /\ UNCHANGED <<activations, fwd_in>>
            ELSE /\ activations' = r
                 /\ fwd_in' = x
                 /\ call' = [op |-> "forward", raised |-> None]
    /\ UNCHANGED <<kind, module, in_shape, in_features, out_features, center,
                   sensitivities, activations_cov, sensitivities_cov, bwd_in>>

LinearBackward ==
    /\ kind = "linear"
    /\ IsTensor(fwd_in)
    /\ \E base \in Bases :
        LET g == Arange(<<fwd_in.shape[1], module.out_features>>, base)
        IN  /\ sensitivities' = LinearLayer_backward_hook(Self, g)
            /\ bwd_in' = g
            /\ call' = [op |-> "backward", raised |-> None]
    /\ UNCHANGED <<kind, module, in_shape, in_features, out_features, center,
                   activations, activations_cov, sensitivities_cov, fwd_in>>

LinearUpdateCov ==
    /\ kind = "linear"
    /\ activations_cov.n < MaxUpdates
    /\ LET r == LinearLayer_update_cov(Self)
       IN  /\ SetSelf(r.self)
           /\ call' = [op |-> "update_cov", raised |-> r.raised]
    /\ UNCHANGED <<kind, in_shape, fwd_in, bwd_in>>

LinearGradsToMat ==
    /\ kind = "linear"
    /\ \E base \in Bases :
        LET grads == ParamGrads(<<module.out_features, module.in_features>>,
                                has_bias(module), base)
        IN  call' = [op |-> "grads_to_mat", grads |-> grads,
                     result |-> grads_to_mat(Self, grads)]
    /\ UNCHANGED <<kind, module, in_shape, in_features, out_features, center,
                   activations, sensitivities, activations_cov, sensitivities_cov,
                   fwd_in, bwd_in>>

\* mat_to_grads of the matrix grads_to_mat has just built from call.grads
LinearMatToGrads ==
    /\ kind = "linear"
    /\ call.op = "grads_to_mat"
    /\ call' = [op |-> "mat_to_grads", grads |-> call.grads, mat_grads |-> call.result,
                result |-> mat_to_grads(Self, call.result)]
    /\ UNCHANGED <<kind, module, in_shape, in_features, out_features, center,
                   activations, sensitivities, activations_cov, sensitivities_cov,
                   fwd_in, bwd_in>>

NextLinear ==
    \/ LinearForward
    \/ LinearBackward
    \/ LinearUpdateCov
    \/ LinearGradsToMat
    \/ LinearMatToGrads

SpecLinear == InitLinear /\ [][NextLinear]_vars

(***************************************************************************)
(* IdentityLayer: the optimizer's calls                                    *)
(***************************************************************************)
\* the shapes of the gradients the optimizer passes: weight- and bias-like
GradShapes == {<<1>>, <<2>>, <<1, 2>>, <<2, 1>>}

GradTensors == {Arange(shape, base) : shape \in GradShapes, base \in Bases}

GradTuples == UNION {[1..n -> GradTensors] : n \in 0..MaxGrads}

IdentityUpdateCov ==
    /\ kind = "identity"
    /\ LET r == IdentityLayer_update_cov(Self)
       IN  /\ SetSelf(r.self)
           /\ call' = [op |-> "update_cov", raised |-> r.raised]
    /\ UNCHANGED <<kind, in_shape, fwd_in, bwd_in>>

IdentityMultiplyPreconditioner ==
    /\ kind = "identity"
    /\ \E grads \in GradTuples : \E damping \in Dampings :
        LET r == IdentityLayer_multiply_preconditioner(Self, grads, damping)
        IN  /\ SetSelf(r.self)
            /\ call' = [op |-> "multiply_preconditioner", grads |-> grads,
                        damping |-> damping, raised |-> r.raised, result |-> r.result]
    /\ UNCHANGED <<kind, in_shape, fwd_in, bwd_in>>

IdentityVars ==
    /\ kind = "identity"
    /\ call' = [op |-> "vars", result |-> IdentityLayer_vars(Self)]
    /\ UNCHANGED <<kind, module, in_shape, in_features, out_features, center,
                   activations, sensitivities, activations_cov, sensitivities_cov,
                   fwd_in, bwd_in>>

NextIdentity ==
    \/ IdentityUpdateCov
    \/ IdentityMultiplyPreconditioner
    \/ IdentityVars

SpecIdentity == InitIdentity /\ [][NextIdentity]_vars

(***************************************************************************)
(* Linear and convolutional layers together                                *)
(***************************************************************************)
Init == InitLinear \/ InitConv

Next == NextLinear \/ NextConv

Spec == Init /\ [][Next]_vars

(***************************************************************************)
(* Properties                                                              *)
(***************************************************************************)
Multiplied == call.op = "multiply_preconditioner"
Returned == call.raised = None

\* the number of window positions along each spatial dimension:
\* floor((d_i + 2 pad_i - k_i) / stride_i) + 1
WindowPositions(m, shape) ==
    [i \in 1..n_dim(m) |->
        ((shape[2 + i] + 2 * m.padding[i] - m.kernel_size[i]) \div m.stride[i]) + 1]

\* the zero-padded input x of module m at batch b, channel c and padded
\* spatial position pos
PaddedInput(x, m, b, c, pos) ==
    IF \A i \in 1..n_dim(m) :
          pos[i] - m.padding[i] >= 0 /\ pos[i] - m.padding[i] < x.shape[2 + i]
    THEN At(x, <<b, c>> \o [i \in 1..n_dim(m) |-> pos[i] - m.padding[i]])
    ELSE 0

\* the padded position the window at location l (flat) covers at kernel offset koff
WindowAt(m, positions, l, koff) ==
    [i \in 1..n_dim(m) |-> Unravel(l, positions)[i] * m.stride[i] + koff[i]]

\* C1: ConvLayer.multiply_preconditioner, called after a completed forward
\* pass, backward pass and update_cov, returns without raising a tuple of
\* tensors whose shapes are those of the input gradients one for one, with
\* and without bias.
C1_MultiplyKeepsShapes ==
    (/\ kind = "conv" /\ Multiplied
     /\ IsTensor(fwd_in) /\ IsTensor(bwd_in)
     /\ activations_cov.n >= 1 /\ sensitivities_cov.n >= 1)
    => /\ Returned
       /\ Len(call.result) = Len(call.grads)
       /\ \A i \in 1..Len(call.grads) : call.result[i].shape = call.grads[i].shape

\* C2: extract_patches on an input (batch, in_channels, d_1, ..., d_n) returns
\* a tensor of shape (batch, L, in_channels * prod(kernel_size)), L the
\* product over the spatial dimensions of the number of window positions,
\* for every rank n in 1..3.
C2_PatchesShape ==
    (kind = "conv" /\ call.op = "forward")
    => /\ Returned
       /\ activations.shape = <<in_shape[1],
                                Prod(WindowPositions(module, in_shape)),
                                module.in_channels * Prod(module.kernel_size)>>

\* C3: an IdentityLayer's multiply_preconditioner returns the very g it was
\* given whatever the damping, update_cov and every other call leave the
\* layer as constructed (covariance accumulators included), and vars is the
\* empty tuple.
C3_IdentityIsTransparent ==
    kind = "identity"
    => /\ Multiplied => (Returned /\ call.result = call.grads)
       /\ call.op = "vars" => call.result = <<>>
       /\ call.op = "update_cov" => Returned
       /\ activations_cov = MovingAverage(0)
       /\ sensitivities_cov = MovingAverage(0)
       /\ activations = None /\ sensitivities = None /\ center = FALSE
       /\ in_features = 0 /\ out_features = 0

C3_Witness ==
    /\ kind = "identity" /\ Multiplied
    /\ Len(call.grads) = 2 /\ call.damping = 2 /\ call.grads[1] # call.grads[2]
    /\ call.result = call.grads

\* C4: every update_cov of a LinearLayer that has its captures returns having
\* folded into the activations accumulator a square matrix of side
\* module.in_features + 1 with bias, module.in_features without (the
\* in_features declared at construction), and into the sensitivities
\* accumulator a square matrix of side out_features.
C4_LinearCovarianceSides ==
    (/\ kind = "linear" /\ call.op = "update_cov"
     /\ IsTensor(activations) /\ IsTensor(sensitivities))
    => LET side == module.in_features + (IF module.bias THEN 1 ELSE 0)
       IN  /\ Returned
           /\ in_features = side
           /\ activations_cov.shape = <<side, side>>
           /\ activations_cov.last.shape = <<side, side>>
           /\ Len(activations_cov.last.data) = side * side
           /\ sensitivities_cov.last.shape = <<module.out_features, module.out_features>>
           /\ Len(sensitivities_cov.last.data) = module.out_features * module.out_features

C4_Witness ==
    /\ kind = "linear" /\ call.op = "update_cov" /\ Returned
    /\ module.bias /\ module.in_features = 3 /\ module.out_features = 2
    /\ in_shape[1] = 2
    /\ activations_cov.last.shape = <<4, 4>>
    /\ sensitivities_cov.last.shape = <<2, 2>>

\* C5: ConvLayer.multiply_preconditioner mutates no layer state: the captured
\* activations and sensitivities, both covariance accumulators and the center
\* flag are after the call what they were before it, whether it returns or
\* raises.
C5_MultiplyMutatesNothing ==
    [][(kind = "conv" /\ call'.op = "multiply_preconditioner")
       => UNCHANGED <<activations, sensitivities, activations_cov,
                      sensitivities_cov, center>>]_vars

C5_Witness ==
    /\ kind = "conv" /\ Multiplied /\ Returned
    /\ IsTensor(activations) /\ IsTensor(sensitivities)
    /\ activations_cov.n >= 1 /\ sensitivities_cov.n >= 1

\* C6: for a LinearLayer, grads_to_mat((w, b)) is the out_features x
\* in_features matrix whose last column is b and whose other columns are w,
\* and grads_to_mat((w,)) is w; mat_to_grads of that matrix gives the
\* gradients back; and the bias column has the index of the constant-one
\* column appended to the activations.
C6_GradsRoundTrip ==
    kind = "linear"
    => /\ call.op = "grads_to_mat"
          => IF module.bias
             THEN /\ call.result.shape = <<out_features, in_features>>
                  /\ \A r \in 0..(out_features - 1) : \A c \in 0..(in_features - 1) :
                        At(call.result, <<r, c>>) =
                            IF c = in_features - 1 THEN At(call.grads[2], <<r>>)
                            ELSE At(call.grads[1], <<r, c>>)
             ELSE call.result = call.grads[1]
       /\ call.op = "mat_to_grads" => call.result = call.grads
       /\ (module.bias /\ IsTensor(activations))
          => LET h == append_homog(Scaled(activations))
             IN  /\ h.shape[2] = in_features
                 /\ \A r \in 0..(h.shape[1] - 1) :
                       /\ At(h, <<r, in_features - 1>>) = h.den
                       /\ \A c \in 0..(in_features - 2) :
                             At(h, <<r, c>>) = At(activations, <<r, c>>)

C6_Witness ==
    /\ kind = "linear" /\ call.op = "mat_to_grads"
    /\ module.bias /\ module.in_features >= 2 /\ module.out_features >= 2
    /\ Len(call.result) = 2
    /\ call.result = call.grads
    /\ IsTensor(activations)

\* the capture the hooks make of the latest inputs
LatestActivations ==
    IF kind = "conv" THEN ConvLayer_forward_hook(module, fwd_in)
    ELSE LinearLayer_forward_hook(Self, fwd_in)

LatestSensitivities ==
    IF kind = "conv" THEN ConvLayer_backward_hook(bwd_in)
    ELSE LinearLayer_backward_hook(Self, bwd_in)

Rows(t) == reshape2(t, t.shape[Len(t.shape)])

\* the covariance sample of a capture
ActivationSample(t) ==
    LET a0 == Scaled(Rows(t))
        a1 == IF center THEN utils_center(a0) ELSE a0
    IN  compute_cov(IF module.bias THEN append_homog(a1) ELSE a1)

SensitivitySample(t) ==
    LET s0 == Scaled(Rows(t))
    IN  compute_cov(IF center THEN utils_center(s0) ELSE s0)

C7_Captures ==
    /\ IF IsTensor(fwd_in) THEN activations = LatestActivations ELSE activations = None
    /\ IF IsTensor(bwd_in) THEN sensitivities = LatestSensitivities ELSE sensitivities = None
    /\ activations_cov.n = sensitivities_cov.n

C7_UpdateStep ==
    call'.op = "update_cov"
    => /\ activations' = activations
       /\ sensitivities' = sensitivities
       /\ IF call'.raised = None
          THEN /\ activations_cov'.n = activations_cov.n + 1
               /\ sensitivities_cov'.n = sensitivities_cov.n + 1
               /\ activations_cov'.last = ActivationSample(LatestActivations)
               /\ sensitivities_cov'.last = SensitivitySample(LatestSensitivities)
          ELSE UNCHANGED <<activations_cov, sensitivities_cov>>

C9_RenormIsLocations ==
    (kind = "conv" /\ Multiplied /\ IsTensor(activations))
    => /\ call.damping_norm = Prod(WindowPositions(module, in_shape))
       /\ IsTensor(call.mat_grads)
          => call.renorm_coeff = Prod(WindowPositions(module, in_shape))

\* C10: column j of mat_grads (the weight gradient flattened by
\* view(out_channels, -1), the bias column last) and feature j of every patch
\* of the captured activations refer to the same (input channel, kernel
\* offset) pair.
C10_ColumnsMatchFeatures ==
    (kind = "conv" /\ Multiplied /\ IsTensor(call.mat_grads))
    => LET w == call.grads[1]
           positions == WindowPositions(module, in_shape)
           column(j) == Unravel(At(call.mat_grads, <<0, j>>) - 1, w.shape)
       IN  /\ activations.shape[3] = call.mat_grads.shape[2] - 1
           /\ \A b \in 0..(activations.shape[1] - 1) :
              \A l \in 0..(activations.shape[2] - 1) :
              \A j \in 0..(activations.shape[3] - 1) :
                 At(activations, <<b, l, j>>) =
                     PaddedInput(fwd_in, module, b, column(j)[2],
                                 WindowAt(module, positions, l,
                                          SubSeq(column(j), 3, Len(w.shape))))

====
